---- MODULE Spec2Model ----
(***************************************************************************)
(* Model of the Hyperstack API client (src/hyperstack/__init__.py) and of  *)
(* its command-line front-end (src/run.py).                                *)
(*                                                                         *)
(* Strings are sequences of one-character strings, so that str.strip(),    *)
(* str.startswith(), len() and the credentials regular expression are      *)
(* computed character by character.  Python's None is the empty tuple and  *)
(* a supplied optional value x is the one-element tuple <<x>>.             *)
(***************************************************************************)
EXTENDS Integers, Sequences, FiniteSets, TLC

VARIABLES
    pc,        \* "start", "ready", "returned", "failed", "exited"
    client,    \* the Hyperstack instance: api_key, default_headers, base_url
    call,      \* the client operation invocation that has just ended
    sent,      \* number of HTTP requests the transport has been handed
    world,     \* HYPERSTACK_KEY and the credentials file of the process
    calls,     \* number of client operation invocations so far
    proc       \* the CLI process: exit status, stdout, stderr

vars == <<pc, client, call, sent, world, calls, proc>>

(***************************************************************************)
(* Bounds and program constants                                            *)
(***************************************************************************)
MaxPad == 1          \* whitespace characters put around an input string
MaxCalls == 2        \* client operation invocations in one behaviour
MaxNameLen == 50     \* the machine / environment name limit

(***************************************************************************)
(* Python values                                                           *)
(***************************************************************************)
None == << >>
Some(x) == <<x>>
IsNone(o) == o = << >>
Val(o) == o[1]

Whitespace == {" ", "\t", "\n"}

Rep(c, n) == [i \in 1..n |-> c]
Pad(n) == Rep(" ", n)

\* str.strip(): drop leading and trailing whitespace
RECURSIVE LStrip(_)
LStrip(s) ==
    IF s = << >> THEN << >>
    ELSE IF Head(s) \in Whitespace THEN LStrip(Tail(s)) ELSE s

RECURSIVE RStrip(_)
RStrip(s) ==
    IF s = << >> THEN << >>
    ELSE IF s[Len(s)] \in Whitespace THEN RStrip(SubSeq(s, 1, Len(s) - 1)) ELSE s

strip(s) == RStrip(LStrip(s))

\* str.startswith(prefix)
startswith(s, p) == Len(s) >= Len(p) /\ SubSeq(s, 1, Len(p)) = p

\* variant: only the empty string counts as blank (`not v` alone)
IsBlank_EmptyOnly(v) == v = << >>

\* `not v or not v.strip()` of every name and identifier check
IsBlank(v) == v = << >> \/ strip(v) = << >>

(***************************************************************************)
(* Request models (pydantic): a field validator either raises or returns   *)
(* the normalised value.                                                   *)
(***************************************************************************)
Invalid == [ok |-> FALSE, v |-> << >>]
Valid(x) == [ok |-> TRUE, v |-> x]

RegionLiteral == {"CANADA-1", "NORWAY-1"}

EnvironmentRequest_validate_name(v) ==
    IF IsBlank(v) THEN Invalid ELSE Valid(strip(v))

EnvironmentRequest(name, region) ==
    LET n == EnvironmentRequest_validate_name(name)
    IN  IF n.ok /\ region \in RegionLiteral
        THEN [ok |-> TRUE, data |-> [name |-> n.v, region |-> region]]
        ELSE [ok |-> FALSE, data |-> << >>]

ssh_rsa == <<"s","s","h","-","r","s","a">>
ssh_ed25519 == <<"s","s","h","-","e","d","2","5","5","1","9">>
ecdsa_sha2_nistp == <<"e","c","d","s","a","-","s","h","a","2","-","n","i","s","t","p">>
KeyPrefixes == {ssh_rsa, ssh_ed25519, ecdsa_sha2_nistp}

KeypairRequest_validate_names(v) ==
    IF IsBlank(v) THEN Invalid ELSE Valid(strip(v))

\* variant: the OpenSSH prefix is not checked
KeypairRequest_validate_public_key_NoPrefix(v) ==
    IF IsBlank(v) THEN Invalid ELSE Valid(strip(v))

KeypairRequest_validate_public_key(v) ==
    IF IsBlank(v) THEN Invalid
    ELSE IF ~(\E p \in KeyPrefixes : startswith(v, p)) THEN Invalid
    ELSE Valid(strip(v))

KeypairRequest(name, environment_name, public_key) ==
    LET n == KeypairRequest_validate_names(name)
        e == KeypairRequest_validate_names(environment_name)
        k == KeypairRequest_validate_public_key(public_key)
    IN  IF n.ok /\ e.ok /\ k.ok
        THEN [ok |-> TRUE,
              data |-> [name |-> n.v, environment_name |-> e.v, public_key |-> k.v]]
        ELSE [ok |-> FALSE, data |-> << >>]

VirtualMachineRequest_validate_name(v) ==
    IF IsBlank(v) THEN Invalid
    ELSE IF Len(v) > MaxNameLen THEN Invalid
    ELSE Valid(strip(v))

\* variant: the value is returned as given, not stripped
VirtualMachineRequest_validate_resource_names_NoStrip(v) ==
    IF IsBlank(v) THEN Invalid ELSE Valid(v)

VirtualMachineRequest_validate_resource_names(v) ==
    IF IsBlank(v) THEN Invalid ELSE Valid(strip(v))

\* variant: a count of 0 is let through (`< 0` for `< 1`)
VirtualMachineRequest_validate_count_ZeroOk(v) ==
    IF v < 0 THEN [ok |-> FALSE, v |-> 0] ELSE [ok |-> TRUE, v |-> v]

VirtualMachineRequest_validate_count(v) ==
    IF v < 1 THEN [ok |-> FALSE, v |-> 0] ELSE [ok |-> TRUE, v |-> v]

VirtualMachineRequest(name, environment_name, image_name, flavor_name, key_name, count, assign_floating_ip, create_bootable_volume, user_data) ==
    LET n == VirtualMachineRequest_validate_name(name)
        e == VirtualMachineRequest_validate_resource_names(environment_name)
        i == VirtualMachineRequest_validate_resource_names(image_name)
        f == VirtualMachineRequest_validate_resource_names(flavor_name)
        k == VirtualMachineRequest_validate_resource_names(key_name)
        c == VirtualMachineRequest_validate_count(count)
    IN  IF n.ok /\ e.ok /\ i.ok /\ f.ok /\ k.ok /\ c.ok
        THEN [ok |-> TRUE,
              data |-> [name |-> n.v, environment_name |-> e.v, image_name |-> i.v,
                        create_bootable_volume |-> create_bootable_volume,
                        flavor_name |-> f.v, key_name |-> k.v,
                        user_data |-> user_data,
                        assign_floating_ip |-> assign_floating_ip,
                        count |-> c.v]]
        ELSE [ok |-> FALSE, data |-> << >>]

(***************************************************************************)
(* The HTTP collaborator.  A request is handed to the transport, which     *)
(* answers with a decoded body ("dict"), the raw text ("str"), or raises.  *)
(***************************************************************************)
NetOutcomes == {"dict", "str", "error"}

NoResult == << >>
NoCall == << >>
NoArgs == << >>
NoParams == << >>
NoBody == << >>

Path(prefix, id, action) == [prefix |-> prefix, id |-> id, action |-> action]

Raise == [outcome |-> "ValueError", requests |-> << >>, result |-> NoResult,
          helper |-> << >>]

Send(self, method, path, params, json, net) ==
    LET req == [method |-> method, base_url |-> self.base_url, path |-> path,
                params |-> params, json |-> json, headers |-> self.default_headers]
    IN  IF net = "error"
        THEN [outcome |-> "TransportError", requests |-> <<req>>,
              result |-> NoResult, helper |-> << >>]
        ELSE [outcome |-> "ok", requests |-> <<req>>,
              result |-> [kind |-> net], helper |-> << >>]

(***************************************************************************)
(* The client: construction                                                *)
(***************************************************************************)
base_url == "https://infrahub-api.nexgencloud.com/v1"

NoClient == << >>

\* Python truthiness of an Optional[str]: None and "" are falsy
Truthy(o) == ~IsNone(o) /\ Val(o) # << >>

\* `a or b`
Or(a, b) == IF Truthy(a) THEN a ELSE b

\* variant: the `if not self.api_key` check is missing
Hyperstack_init_NoCheck(api_key, environ_key) ==
    LET k == Or(api_key, environ_key)
        key == IF IsNone(k) THEN << >> ELSE Val(k)
    IN  [api_key |-> key, default_headers |-> [api_key |-> key],
         base_url |-> base_url]

\* Hyperstack.__init__: the instance, or NoClient when ValueError is raised
Hyperstack_init(api_key, environ_key) ==
    LET k == Or(api_key, environ_key)
    IN  IF ~Truthy(k) THEN NoClient
        ELSE [api_key |-> Val(k),
              default_headers |-> [api_key |-> Val(k)],
              base_url |-> base_url]

(***************************************************************************)
(* The client: operations.  Each takes the instance, its arguments and the *)
(* transport's answer to the request it may issue.                         *)
(***************************************************************************)
\* variant: a blank string is sent as it is (only `is not None` is checked)
StrParam_Blank(key, o) ==
    IF ~IsNone(o) THEN key :> strip(Val(o)) ELSE NoParams

\* the `if x is not None: if x.strip(): params[key] = x.strip()` blocks
StrParam(key, o) ==
    IF ~IsNone(o) /\ strip(Val(o)) # << >> THEN key :> strip(Val(o)) ELSE NoParams

\* the `if x is not None: params[key] = x` blocks
ValParam(key, o) == IF ~IsNone(o) THEN key :> Val(o) ELSE NoParams

get_environment(self, environment_id, net) ==
    IF IsBlank(environment_id) THEN Raise
    ELSE Send(self, "GET", Path("/core/environments", strip(environment_id), ""),
              NoParams, NoBody, net)

list_environments(self, search, page, page_size, net) ==
    IF ~IsNone(page) /\ Val(page) < 0 THEN Raise
    ELSE IF ~IsNone(page_size) /\ Val(page_size) < 1 THEN Raise
    ELSE Send(self, "GET", Path("/core/environments", None, ""),
              StrParam("search", search) @@ ValParam("page", page)
                  @@ ValParam("pageSize", page_size),
              NoBody, net)

create_environment(self, name, region, net) ==
    LET data == EnvironmentRequest(name, region)
    IN  IF ~data.ok THEN Raise
        ELSE Send(self, "POST", Path("/core/environments", None, ""),
                  NoParams, data.data, net)

\* variant: the path is built from the identifier as given
update_environment_RawId(self, environment_id, new_name, net) ==
    IF IsBlank(environment_id) THEN Raise
    ELSE IF IsBlank(new_name) THEN Raise
    ELSE IF Len(strip(new_name)) > MaxNameLen THEN Raise
    ELSE Send(self, "PUT", Path("/core/environments", environment_id, ""),
              NoParams, [name |-> strip(new_name)], net)

update_environment(self, environment_id, new_name, net) ==
    IF IsBlank(environment_id) THEN Raise
    ELSE IF IsBlank(new_name) THEN Raise
    ELSE IF Len(strip(new_name)) > MaxNameLen THEN Raise
    ELSE Send(self, "PUT", Path("/core/environments", strip(environment_id), ""),
              NoParams, [name |-> strip(new_name)], net)

\* variant: a failed request is sent a second time
delete_environment_Retry(self, environment_id, net) ==
    LET r == IF IsBlank(environment_id) THEN Raise
             ELSE Send(self, "DELETE",
                       Path("/core/environments", strip(environment_id), ""),
                       NoParams, NoBody, net)
    IN  IF r.outcome = "TransportError"
        THEN [r EXCEPT !.requests = r.requests \o r.requests]
        ELSE r

delete_environment(self, environment_id, net) ==
    IF IsBlank(environment_id) THEN Raise
    ELSE Send(self, "DELETE", Path("/core/environments", strip(environment_id), ""),
              NoParams, NoBody, net)

create_keypair(self, name, environment_name, public_key, net) ==
    LET data == KeypairRequest(name, environment_name, public_key)
    IN  IF ~data.ok THEN Raise
        ELSE Send(self, "POST", Path("/core/keypairs", None, ""),
                  NoParams, data.data, net)

\* variant: the request is sent with headers of its own
get_flavors_OwnHeaders(self, net) ==
    Send([self EXCEPT !.default_headers = [api_key |-> << >>]], "GET",
         Path("/core/flavors", None, ""), NoParams, NoBody, net)

get_flavors(self, net) ==
    Send(self, "GET", Path("/core/flavors", None, ""), NoParams, NoBody, net)

\* variant: per_page = 0 is let through (`< 0` for `< 1`)
get_images_PerPageZero(self, region, include_public, search, page, per_page, net) ==
    IF ~IsNone(page) /\ Val(page) < 0 THEN Raise
    ELSE IF ~IsNone(per_page) /\ Val(per_page) < 0 THEN Raise
    ELSE Send(self, "GET", Path("/core/images", None, ""),
              StrParam("region", region) @@ ValParam("include_public", include_public)
                  @@ StrParam("search", search) @@ ValParam("page", page)
                  @@ ValParam("per_page", per_page),
              NoBody, net)

get_images(self, region, include_public, search, page, per_page, net) ==
    IF ~IsNone(page) /\ Val(page) < 0 THEN Raise
    ELSE IF ~IsNone(per_page) /\ Val(per_page) < 1 THEN Raise
    ELSE Send(self, "GET", Path("/core/images", None, ""),
              StrParam("region", region) @@ ValParam("include_public", include_public)
                  @@ StrParam("search", search) @@ ValParam("page", page)
                  @@ ValParam("per_page", per_page),
              NoBody, net)

get_gpu_stocks(self, net) ==
    Send(self, "GET", Path("/core/stocks", None, ""), NoParams, NoBody, net)

list_virtual_machines(self, search, environment, page, page_size, net) ==
    IF ~IsNone(page) /\ Val(page) < 0 THEN Raise
    ELSE IF ~IsNone(page_size) /\ Val(page_size) < 1 THEN Raise
    ELSE Send(self, "GET", Path("/core/virtual-machines", None, ""),
              StrParam("search", search) @@ StrParam("environment", environment)
                  @@ ValParam("page", page) @@ ValParam("pageSize", page_size),
              NoBody, net)

get_virtual_machine(self, vm_id, net) ==
    IF IsBlank(vm_id) THEN Raise
    ELSE Send(self, "GET", Path("/core/virtual-machines", strip(vm_id), ""),
              NoParams, NoBody, net)

create_virtual_machine(self, name, environment_name, image_name, flavor_name, key_name, count, assign_floating_ip, create_bootable_volume, user_data, net) ==
    LET data == VirtualMachineRequest(name, environment_name, image_name,
                                      flavor_name, key_name, count,
                                      assign_floating_ip, create_bootable_volume,
                                      user_data)
    IN  IF ~data.ok THEN Raise
        ELSE Send(self, "POST", Path("/core/virtual-machines", None, ""),
                  NoParams, data.data, net)

\* variant: the action is sent with POST
execute_vm_action_Post(self, vm_id, action, net) ==
    LET r == IF IsBlank(vm_id) THEN Raise
             ELSE Send(self, "POST",
                       Path("/core/virtual-machines", strip(vm_id), action),
                       NoParams, NoBody, net)
    IN  [r EXCEPT !.helper = <<"_execute_vm_action">>]

\* Hyperstack._execute_vm_action; `helper` records that the call went through it
execute_vm_action(self, vm_id, action, net) ==
    LET r == IF IsBlank(vm_id) THEN Raise
             ELSE Send(self, "GET",
                       Path("/core/virtual-machines", strip(vm_id), action),
                       NoParams, NoBody, net)
    IN  [r EXCEPT !.helper = <<"_execute_vm_action">>]

start_virtual_machine(self, vm_id, net) ==
    execute_vm_action(self, vm_id, "start", net)

stop_virtual_machine(self, vm_id, net) ==
    execute_vm_action(self, vm_id, "stop", net)

hard_reboot_virtual_machine(self, vm_id, net) ==
    execute_vm_action(self, vm_id, "hard-reboot", net)

hibernate_virtual_machine(self, vm_id, net) ==
    execute_vm_action(self, vm_id, "hibernate", net)

restore_hibernated_virtual_machine(self, vm_id, net) ==
    execute_vm_action(self, vm_id, "hibernate-restore", net)

delete_virtual_machine(self, vm_id, net) ==
    IF IsBlank(vm_id) THEN Raise
    ELSE Send(self, "DELETE", Path("/core/virtual-machines", strip(vm_id), ""),
              NoParams, NoBody, net)

(***************************************************************************)
(* Inputs                                                                  *)
(***************************************************************************)
Padded(cores) ==
    {Pad(l) \o c \o Pad(t) : <<l, c, t>> \in (0..MaxPad) \X cores \X (0..MaxPad)}

NameLens == {0, 1, MaxNameLen, MaxNameLen + 1}

MachineNames ==
    Padded({Rep("a", n) : n \in NameLens}) \cup {<<"a", " ", "b">>, <<"\t", "a", "\n">>}

Names ==
    Padded({<< >>, <<"n">>, <<"n", " ", "m">>}) \cup {<<"\t">>, <<"\n", "n", "\t">>}

ResourceNames == {<< >>, <<"\t">>, <<" ", "r", "\n">>}

Ids == Padded({<< >>, <<"7">>}) \cup {<<"\n">>, <<"\t", "7", " ", "8", "\n">>}

Regions == {"CANADA-1", "NORWAY-1", "MARS-1", "canada-1", " CANADA-1"}

PublicKeys ==
    {l \o b \o t :
        <<l, b, t>> \in {<< >>, <<" ">>}
                        \X (KeyPrefixes \cup {<< >>, <<"s","s","h","-","r","s">>,
                                              <<"s","s","h","-","d","s","s">>})
                        \X {<< >>, <<" ", "A", "\n">>}}

OptStrings == {None, Some(<< >>), Some(<<" ">>), Some(<<"q">>), Some(<<" ", "q", "\t">>)}
OptPages == {None, Some(-1), Some(0), Some(1)}
OptSizes == {None, Some(0), Some(1), Some(2)}
OptBools == {None, Some(FALSE), Some(TRUE)}
Counts == {-1, 0, 1, 2}
UserData == {<< >>, <<"#", "!">>}

GoodName == <<"n">>
GoodKey == ssh_ed25519 \o <<" ", "A">>

CreateKeypairArgs ==
    [name : Names, environment_name : ResourceNames,
     public_key : {GoodKey, <<"n", "o", "t", "-", "a", "-", "k", "e", "y">>}]
    \cup [name : {GoodName}, environment_name : {GoodName}, public_key : PublicKeys]

CreateVmArgs ==
    [name : MachineNames, environment_name : {GoodName}, image_name : {GoodName},
     flavor_name : {GoodName}, key_name : {GoodName}, count : Counts,
     assign_floating_ip : {TRUE}, create_bootable_volume : {FALSE},
     user_data : {<< >>}]
    \cup
    [name : {GoodName}, environment_name : ResourceNames,
     image_name : ResourceNames, flavor_name : ResourceNames,
     key_name : ResourceNames, count : {1},
     assign_floating_ip : {TRUE}, create_bootable_volume : {FALSE},
     user_data : {<< >>}]
    \cup
    [name : {<<" ", "v", " ">>}, environment_name : {GoodName}, image_name : {GoodName},
     flavor_name : {GoodName}, key_name : {GoodName}, count : {0, 2},
     assign_floating_ip : BOOLEAN, create_bootable_volume : BOOLEAN,
     user_data : UserData]
    \cup
    [name : {GoodName}, environment_name : {GoodName}, image_name : {GoodName},
     flavor_name : {GoodName}, key_name : {GoodName}]

\* values of the optional parameters a caller leaves out
create_virtual_machine_defaults ==
    [count |-> 1, assign_floating_ip |-> TRUE, create_bootable_volume |-> FALSE,
     user_data |-> << >>]

VmActionOps == {"start_virtual_machine", "stop_virtual_machine",
                "hard_reboot_virtual_machine", "hibernate_virtual_machine",
                "restore_hibernated_virtual_machine"}

(***************************************************************************)
(* The process's surroundings: the HYPERSTACK_KEY environment variable and *)
(* the text of ~/.hyperstack/credentials.                                  *)
(***************************************************************************)
OptKeys == {None, Some(<< >>), Some(<<"K", "1">>)}
EnvKeys == {None, Some(<< >>), Some(<<"E", "2">>)}

\* credentials files: absent, unreadable, or a text
NoFile == [exists |-> FALSE, readable |-> FALSE, text |-> << >>]
Unreadable == [exists |-> TRUE, readable |-> FALSE, text |-> << >>]
File(text) == [exists |-> TRUE, readable |-> TRUE, text |-> text]

NL == <<"\n">>
KeyLineF == <<"k","e","y"," ","="," ","F","3">>
KeyLineG == <<"k","e","y","=","G","4"," ">>
KeyLineEmpty == <<"k","e","y"," ","="," ">>
CommentLine == <<"#"," ","c">>
UserLine == <<"u","s","e","r"," ","="," ","u">>

CredentialFiles ==
    {NoFile, Unreadable,
     File(KeyLineF \o NL),
     File(CommentLine \o NL \o KeyLineG \o NL),
     File(KeyLineF \o NL \o KeyLineG),
     File(KeyLineEmpty \o NL),
     File(UserLine \o NL)}

SetMin(S) == CHOOSE x \in S : \A y \in S : x <= y
SetMax(S) == CHOOSE x \in S : \A y \in S : x >= y

\* first index >= i that holds no whitespace, Len(s) + 1 if there is none
SkipWs(s, i) ==
    LET rest == {k \in i..Len(s) : s[k] \notin Whitespace}
    IN  IF rest = {} THEN Len(s) + 1 ELSE SetMin(rest)

\* last index of the run of non-newline characters that starts at i
LineEnd(s, i) ==
    LET nl == {k \in i..Len(s) : s[k] = "\n"}
    IN  IF nl = {} THEN Len(s) ELSE SetMin(nl) - 1

\* re.match of r"key\s*=\s*(.+)" at index i: the span of group 1, or << >>
MatchAt(s, i) ==
    IF ~(i + 2 <= Len(s) /\ SubSeq(s, i, i + 2) = <<"k", "e", "y">>) THEN << >>
    ELSE LET j == SkipWs(s, i + 3)
         IN  IF ~(j <= Len(s) /\ s[j] = "=") THEN << >>
             ELSE LET m == SkipWs(s, j + 1)
                      back == {q \in (j + 1)..Len(s) : s[q] # "\n"}
                  IN  IF m <= Len(s) THEN <<m, LineEnd(s, m)>>
                      ELSE IF back = {} THEN << >>
                      ELSE <<SetMax(back), LineEnd(s, SetMax(back))>>

\* re.search(r"key\s*=\s*(.+)", content): group 1 of the leftmost match
Search(s) ==
    LET hits == {i \in 1..Len(s) : MatchAt(s, i) # << >>}
    IN  IF hits = {} THEN None
        ELSE LET g == MatchAt(s, SetMin(hits)) IN Some(SubSeq(s, g[1], g[2]))

get_api_key_from_credentials(file) ==
    IF ~file.exists THEN None
    ELSE IF ~file.readable THEN None
    ELSE LET match == Search(file.text)
         IN  IF ~IsNone(match) THEN Some(strip(Val(match))) ELSE None

(***************************************************************************)
(* The command-line front-end (src/run.py).  `argv` is the command line    *)
(* as typed: an option that was left out is None, a flag is a boolean.     *)
(***************************************************************************)
CliNames == {<<" ">>, <<"n">>, <<" ", "n", "\t">>}
CliIds == {<<" ">>, <<"7">>, <<" ", "7", " ">>}
CliOptStrings == {None, Some(<<" ">>), Some(<<" ", "q">>)}
CliKeyFiles == {None, Some(Unreadable), Some(File(GoodKey \o NL)),
                Some(File(<<"x">>))}
CliDataFiles == {None, Some(Unreadable), Some(File(<<"#", "!">>))}

Globals == [api_key : OptKeys, format : {None, Some("json")}]

Options(command) ==
    CASE command = "create-environment" ->
            [name : CliNames, region : {"CANADA-1", "NORWAY-1", "MARS-1"}]
      [] command \in {"get-environment", "delete-environment"} ->
            [environment_id : CliIds]
      [] command = "list-environments" ->
            [search : CliOptStrings, page : OptPages, page_size : OptSizes]
      [] command = "update-environment" ->
            [environment_id : CliIds, new_name : CliNames]
      [] command = "create-keypair" ->
            [name : CliNames, environment_name : {GoodName},
             public_key : {None, Some(GoodKey), Some(<<"x">>)},
             public_key_file : CliKeyFiles]
      [] command \in {"get-flavors", "get-images", "get-gpu-stocks"} ->
            {NoArgs}
      [] command = "create-vm" ->
            [name : CliNames \cup {Rep("a", MaxNameLen + 1)},
             environment_name : {GoodName}, image_name : {GoodName},
             flavor_name : {GoodName, <<"\t">>}, key_name : {GoodName},
             create_bootable_volume : {FALSE}, user_data : {None},
             user_data_file : {None}, assign_floating_ip : {FALSE},
             count : {None}]
            \cup
            [name : {GoodName}, environment_name : {GoodName},
             image_name : {GoodName}, flavor_name : {GoodName},
             key_name : {GoodName},
             create_bootable_volume : BOOLEAN, user_data : {None, Some(<<"u">>)},
             user_data_file : CliDataFiles, assign_floating_ip : BOOLEAN,
             count : {None, Some(0), Some(2)}]
      [] command = "list-vms" ->
            [search : CliOptStrings, environment : CliOptStrings,
             page : {None}, page_size : {None}]
            \cup
            [search : {None}, environment : {Some(<<"e">>)},
             page : OptPages, page_size : OptSizes]
      [] OTHER -> [vm_id : CliIds]

Commands ==
    {"create-environment", "get-environment", "list-environments",
     "update-environment", "delete-environment", "create-keypair", "get-flavors",
     "get-images", "get-gpu-stocks", "create-vm", "list-vms", "get-vm", "start-vm",
     "stop-vm", "reboot-vm", "hibernate-vm", "restore-vm", "delete-vm"}

\* argparse: `default=` of an option that was left out
Default(o, d) == IF IsNone(o) THEN d ELSE Val(o)

\* variant: the switch's default is ignored (a plain store_true)
StoreTrue_NoDefault(flag, d) == flag

\* argparse: action="store_true" with the given default
StoreTrue(flag, d) == IF flag THEN TRUE ELSE d

\* parser.parse_args(): the Namespace, or a usage error (exit status 2)
parse_args(g, command, o) ==
    LET top == [api_key |-> g.api_key, format |-> Default(g.format, "pretty"),
                command |-> command]
    IN  IF command = "create-environment" /\ o.region \notin {"CANADA-1", "NORWAY-1"}
        THEN [ok |-> FALSE, args |-> NoArgs]
        ELSE IF command = "create-vm"
        THEN [ok |-> TRUE,
              args |-> top @@
                  [name |-> o.name, environment_name |-> o.environment_name,
                   image_name |-> o.image_name, flavor_name |-> o.flavor_name,
                   key_name |-> o.key_name,
                   create_bootable_volume |-> StoreTrue(o.create_bootable_volume, FALSE),
                   user_data |-> Default(o.user_data, << >>),
                   user_data_file |-> o.user_data_file,
                   assign_floating_ip |-> StoreTrue(o.assign_floating_ip, TRUE),
                   count |-> Default(o.count, 1)]]
        ELSE [ok |-> TRUE, args |-> top @@ o]

\* what run_command hands back to main: the client it built, the client
\* operation it awaited, and the exception that left it ("" if none)
Ran(self, op, kwargs, r) ==
    [client |-> self,
     call |-> [op |-> op, args |-> kwargs, outcome |-> r.outcome,
               requests |-> r.requests, result |-> r.result, helper |-> r.helper],
     raised |-> IF r.outcome = "ok" THEN "" ELSE r.outcome,
     result |-> r.result]

Failed(self, error) ==
    [client |-> self, call |-> NoCall, raised |-> error, result |-> NoResult]

run_command(args, environ_key, net) ==
    LET self == Hyperstack_init(args.api_key, environ_key)
        c == args.command
    IN  IF self = NoClient THEN Failed(NoClient, "ValueError")
        ELSE CASE c = "create-environment" ->
                Ran(self, "create_environment",
                    [name |-> args.name, region |-> args.region],
                    create_environment(self, args.name, args.region, net))
          [] c = "get-environment" ->
                Ran(self, "get_environment",
                    [environment_id |-> args.environment_id],
                    get_environment(self, args.environment_id, net))
          [] c = "list-environments" ->
                Ran(self, "list_environments",
                    [search |-> args.search, page |-> args.page,
                     page_size |-> args.page_size],
                    list_environments(self, args.search, args.page,
                                      args.page_size, net))
          [] c = "update-environment" ->
                Ran(self, "update_environment",
                    [environment_id |-> args.environment_id,
                     new_name |-> args.new_name],
                    update_environment(self, args.environment_id,
                                       args.new_name, net))
          [] c = "delete-environment" ->
                Ran(self, "delete_environment",
                    [environment_id |-> args.environment_id],
                    delete_environment(self, args.environment_id, net))
          [] c = "create-keypair" ->
                IF ~IsNone(args.public_key_file)
                       /\ ~Val(args.public_key_file).readable
                THEN Failed(self, "OSError")
                ELSE \* main has checked that one of the two was given
                     LET public_key ==
                             IF ~IsNone(args.public_key_file)
                             THEN strip(Val(args.public_key_file).text)
                             ELSE Val(args.public_key)
                     IN  Ran(self, "create_keypair",
                             [name |-> args.name,
                              environment_name |-> args.environment_name,
                              public_key |-> public_key],
                             create_keypair(self, args.name, args.environment_name,
                                            public_key, net))
          [] c = "get-flavors" ->
                Ran(self, "get_flavors", NoArgs, get_flavors(self, net))
          [] c = "get-images" ->
                Ran(self, "get_images", NoArgs,
                    get_images(self, None, None, None, None, None, net))
          [] c = "get-gpu-stocks" ->
                Ran(self, "get_gpu_stocks", NoArgs, get_gpu_stocks(self, net))
          [] c = "create-vm" ->
                Ran(self, "create_virtual_machine",
                    [name |-> args.name,
                     environment_name |-> args.environment_name,
                     image_name |-> args.image_name,
                     flavor_name |-> args.flavor_name,
                     key_name |-> args.key_name,
                     create_bootable_volume |-> args.create_bootable_volume,
                     user_data |-> args.user_data,
                     assign_floating_ip |-> args.assign_floating_ip,
                     count |-> args.count],
                    create_virtual_machine(self, args.name, args.environment_name,
                                           args.image_name, args.flavor_name,
                                           args.key_name, args.count,
                                           args.assign_floating_ip,
                                           args.create_bootable_volume,
                                           args.user_data, net))
          [] c = "list-vms" ->
                Ran(self, "list_virtual_machines",
                    [search |-> args.search, environment |-> args.environment,
                     page |-> args.page, page_size |-> args.page_size],
                    list_virtual_machines(self, args.search, args.environment,
                                          args.page, args.page_size, net))
          [] c = "get-vm" ->
                Ran(self, "get_virtual_machine", [vm_id |-> args.vm_id],
                    get_virtual_machine(self, args.vm_id, net))
          [] c = "start-vm" ->
                Ran(self, "start_virtual_machine", [vm_id |-> args.vm_id],
                    start_virtual_machine(self, args.vm_id, net))
          [] c = "stop-vm" ->
                Ran(self, "stop_virtual_machine", [vm_id |-> args.vm_id],
                    stop_virtual_machine(self, args.vm_id, net))
          [] c = "reboot-vm" ->
                Ran(self, "hard_reboot_virtual_machine", [vm_id |-> args.vm_id],
                    hard_reboot_virtual_machine(self, args.vm_id, net))
          [] c = "hibernate-vm" ->
                Ran(self, "hibernate_virtual_machine", [vm_id |-> args.vm_id],
                    hibernate_virtual_machine(self, args.vm_id, net))
          [] c = "restore-vm" ->
                Ran(self, "restore_hibernated_virtual_machine",
                    [vm_id |-> args.vm_id],
                    restore_hibernated_virtual_machine(self, args.vm_id, net))
          [] c = "delete-vm" ->
                Ran(self, "delete_virtual_machine", [vm_id |-> args.vm_id],
                    delete_virtual_machine(self, args.vm_id, net))

\* variant: the process status is left at 0 whatever happened
Exit_StatusZero(code, out, err, ran, key) ==
    [exit_code |-> 0, stdout |-> out, stderr |-> err,
     client |-> ran.client, call |-> ran.call, error |-> ran.raised,
     api_key |-> key]

\* how a run of main ends
Exit(code, out, err, ran, key) ==
    [exit_code |-> code, stdout |-> out, stderr |-> err,
     client |-> ran.client, call |-> ran.call, error |-> ran.raised,
     api_key |-> key]

NotRun == Failed(NoClient, "")

\* variant: HYPERSTACK_KEY is consulted before --api-key
resolve_api_key_EnvFirst(api_key, w) ==
    IF Truthy(w.environ_key) THEN w.environ_key
    ELSE IF Truthy(api_key) THEN api_key
    ELSE get_api_key_from_credentials(w.credentials)

\* lines 323-332: --api-key, else HYPERSTACK_KEY, else the credentials file
resolve_api_key(api_key, w) ==
    IF Truthy(api_key) THEN api_key
    ELSE IF Truthy(w.environ_key) THEN w.environ_key
    ELSE get_api_key_from_credentials(w.credentials)

main(g, command, o, w, net) ==
    LET parsed == parse_args(g, command, o)
        key == resolve_api_key(g.api_key, w)
        has_file == parsed.ok /\ "user_data_file" \in DOMAIN parsed.args
                        /\ ~IsNone(parsed.args.user_data_file)
        args == IF has_file /\ Val(parsed.args.user_data_file).readable
                THEN [parsed.args EXCEPT
                          !.api_key = key,
                          !.user_data = Val(parsed.args.user_data_file).text]
                ELSE [parsed.args EXCEPT !.api_key = key]
    IN  IF ~parsed.ok
        THEN Exit(2, << >>, <<[kind |-> "usage", error |-> "argument"]>>, NotRun, None)
        ELSE IF ~Truthy(key)
        THEN Exit(2, << >>, <<[kind |-> "usage", error |-> "API key not found"]>>,
                  NotRun, None)
        ELSE IF has_file /\ ~Val(parsed.args.user_data_file).readable
        THEN Exit(1, << >>, <<[kind |-> "Traceback", error |-> "OSError"]>>,
                  NotRun, key)
        ELSE IF command = "create-keypair"
                    /\ ~(Truthy(args.public_key) \/ ~IsNone(args.public_key_file))
        THEN Exit(2, << >>, <<[kind |-> "usage", error |-> "public key"]>>,
                  NotRun, key)
        ELSE LET ran == run_command(args, w.environ_key, net)
             IN  IF ran.raised = ""
                 THEN Exit(0, <<[format |-> args.format, dumps |-> ran.result]>>,
                           << >>, ran, key)
                 ELSE Exit(1, << >>, <<[kind |-> "Error", error |-> ran.raised]>>,
                           ran, key)

(***************************************************************************)
(* State machine: library use.  A caller constructs the client and then    *)
(* awaits one operation after the other.                                   *)
(***************************************************************************)
Init ==
    /\ pc = "start"
    /\ client = NoClient
    /\ call = NoCall
    /\ sent = 0
    /\ calls = 0
    /\ world \in [environ_key : EnvKeys, credentials : CredentialFiles]
    /\ proc = [mode |-> "none", api_key |-> None, error |-> "", argv |-> NoArgs,
               exit_code |-> None, stdout |-> << >>, stderr |-> << >>]

\* Hyperstack(api_key=...) called by library code
Construct ==
    /\ pc = "start"
    /\ \E api_key \in OptKeys :
          LET self == Hyperstack_init(api_key, world.environ_key)
          IN  /\ client' = self
              /\ pc' = IF self = NoClient THEN "failed" ELSE "ready"
              /\ proc' = [proc EXCEPT !.mode = "lib", !.api_key = api_key,
                                      !.error = IF self = NoClient
                                                THEN "ValueError" ELSE ""]
    /\ UNCHANGED <<call, sent, world, calls>>

\* one awaited client operation: its arguments, how it ended, what it sent
CanInvoke == pc = "ready" /\ calls < MaxCalls

Invoke(op, args, ended) ==
    \E r \in {ended} :
        /\ call' = [op |-> op, args |-> args, outcome |-> r.outcome,
                    requests |-> r.requests, result |-> r.result,
                    helper |-> r.helper]
        /\ sent' = sent + Len(r.requests)
        /\ calls' = calls + 1
        /\ pc' = "returned"
        /\ UNCHANGED <<client, world, proc>>

\* the awaited operation's frame is gone once the caller has its result
Return ==
    /\ pc = "returned"
    /\ pc' = "ready"
    /\ call' = NoCall
    /\ UNCHANGED <<client, sent, world, calls, proc>>

GetEnvironment ==
    /\ CanInvoke
    /\ \E id \in Ids, net \in NetOutcomes :
        Invoke("get_environment", [environment_id |-> id],
               get_environment(client, id, net))

ListEnvironments ==
    /\ CanInvoke
    /\ \E <<search, page, page_size>> \in
            (OptStrings \X {None} \X {None})
                \cup ({None, Some(<<" ", "q", "\t">>)} \X OptPages \X OptSizes),
         net \in NetOutcomes :
        Invoke("list_environments",
               [search |-> search, page |-> page, page_size |-> page_size],
               list_environments(client, search, page, page_size, net))

CreateEnvironment ==
    /\ CanInvoke
    /\ \E name \in Names, region \in Regions, net \in NetOutcomes :
        Invoke("create_environment", [name |-> name, region |-> region],
               create_environment(client, name, region, net))

UpdateEnvironment ==
    /\ CanInvoke
    /\ \E id \in Ids, new_name \in MachineNames, net \in NetOutcomes :
        Invoke("update_environment", [environment_id |-> id, new_name |-> new_name],
               update_environment(client, id, new_name, net))

DeleteEnvironment ==
    /\ CanInvoke
    /\ \E id \in Ids, net \in NetOutcomes :
        Invoke("delete_environment", [environment_id |-> id],
               delete_environment(client, id, net))

CreateKeypair ==
    /\ CanInvoke
    /\ \E a \in CreateKeypairArgs, net \in NetOutcomes :
        Invoke("create_keypair", a,
               create_keypair(client, a.name, a.environment_name, a.public_key, net))

GetFlavors ==
    /\ CanInvoke
    /\ \E net \in NetOutcomes :
        Invoke("get_flavors", NoArgs, get_flavors(client, net))

GetImages ==
    /\ CanInvoke
    /\ \E <<region, include_public, search, page, per_page>> \in
            ({None, Some(<<" ">>), Some(<<" ", "C", "A">>)} \X OptBools
                 \X {None, Some(<< >>), Some(<<"q", " ">>)} \X {None} \X {None})
                \cup ({None} \X {None, Some(TRUE)} \X {None, Some(<<"q", " ">>)}
                          \X OptPages \X OptSizes),
         net \in NetOutcomes :
        Invoke("get_images",
               [region |-> region, include_public |-> include_public,
                search |-> search, page |-> page, per_page |-> per_page],
               get_images(client, region, include_public, search, page, per_page, net))

GetGpuStocks ==
    /\ CanInvoke
    /\ \E net \in NetOutcomes :
        Invoke("get_gpu_stocks", NoArgs, get_gpu_stocks(client, net))

ListVirtualMachines ==
    /\ CanInvoke
    /\ \E <<search, environment, page, page_size>> \in
            (OptStrings \X {None, Some(<<"\t">>), Some(<<"e", " ">>)}
                 \X {None} \X {None})
                \cup ({None} \X {None, Some(<<"e", " ">>)} \X OptPages \X OptSizes),
         net \in NetOutcomes :
        Invoke("list_virtual_machines",
               [search |-> search, environment |-> environment,
                page |-> page, page_size |-> page_size],
               list_virtual_machines(client, search, environment, page, page_size, net))

GetVirtualMachine ==
    /\ CanInvoke
    /\ \E id \in Ids, net \in NetOutcomes :
        Invoke("get_virtual_machine", [vm_id |-> id],
               get_virtual_machine(client, id, net))

CreateVirtualMachine ==
    /\ CanInvoke
    /\ \E a \in CreateVmArgs, net \in NetOutcomes :
        \E b \in {a @@ create_virtual_machine_defaults} :
            Invoke("create_virtual_machine", a,
                   create_virtual_machine(client, b.name, b.environment_name,
                                          b.image_name, b.flavor_name, b.key_name,
                                          b.count, b.assign_floating_ip,
                                          b.create_bootable_volume, b.user_data, net))

StartVirtualMachine ==
    /\ CanInvoke
    /\ \E id \in Ids, net \in NetOutcomes :
        Invoke("start_virtual_machine", [vm_id |-> id],
               start_virtual_machine(client, id, net))

StopVirtualMachine ==
    /\ CanInvoke
    /\ \E id \in Ids, net \in NetOutcomes :
        Invoke("stop_virtual_machine", [vm_id |-> id],
               stop_virtual_machine(client, id, net))

HardRebootVirtualMachine ==
    /\ CanInvoke
    /\ \E id \in Ids, net \in NetOutcomes :
        Invoke("hard_reboot_virtual_machine", [vm_id |-> id],
               hard_reboot_virtual_machine(client, id, net))

HibernateVirtualMachine ==
    /\ CanInvoke
    /\ \E id \in Ids, net \in NetOutcomes :
        Invoke("hibernate_virtual_machine", [vm_id |-> id],
               hibernate_virtual_machine(client, id, net))

RestoreHibernatedVirtualMachine ==
    /\ CanInvoke
    /\ \E id \in Ids, net \in NetOutcomes :
        Invoke("restore_hibernated_virtual_machine", [vm_id |-> id],
               restore_hibernated_virtual_machine(client, id, net))

DeleteVirtualMachine ==
    /\ CanInvoke
    /\ \E id \in Ids, net \in NetOutcomes :
        Invoke("delete_virtual_machine", [vm_id |-> id],
               delete_virtual_machine(client, id, net))

\* one run of the command-line program
Main ==
    /\ pc = "start"
    /\ \E g \in Globals, command \in Commands, net \in NetOutcomes :
          \E o \in Options(command) :
              \E p \in {main(g, command, o, world, net)} :
                  /\ pc' = "exited"
                  /\ client' = p.client
                  /\ call' = p.call
                  /\ sent' = sent + (IF p.call = NoCall THEN 0
                                                         ELSE Len(p.call.requests))
                  /\ calls' = calls + (IF p.call = NoCall THEN 0 ELSE 1)
                  /\ proc' = [mode |-> "cli", api_key |-> g.api_key,
                              error |-> p.error,
                              argv |-> [command |-> command, format |-> g.format,
                                        options |-> o],
                              exit_code |-> Some(p.exit_code),
                              stdout |-> p.stdout, stderr |-> p.stderr]
    /\ UNCHANGED world

Next ==
    \/ Construct
    \/ Main
    \/ Return
    \/ GetEnvironment
    \/ ListEnvironments
    \/ CreateEnvironment
    \/ UpdateEnvironment
    \/ DeleteEnvironment
    \/ CreateKeypair
    \/ GetFlavors
    \/ GetImages
    \/ GetGpuStocks
    \/ ListVirtualMachines
    \/ GetVirtualMachine
    \/ CreateVirtualMachine
    \/ StartVirtualMachine
    \/ StopVirtualMachine
    \/ HardRebootVirtualMachine
    \/ HibernateVirtualMachine
    \/ RestoreHibernatedVirtualMachine
    \/ DeleteVirtualMachine

Spec == Init /\ [][Next]_vars

(***************************************************************************)
(* Vocabulary of the properties, stated on the arguments a caller passed   *)
(* and on the request that left the client.                                *)
(***************************************************************************)
AllWhitespace(s) == \A k \in 1..Len(s) : s[k] \in Whitespace

\* s without its surrounding whitespace
Core(s) ==
    LET solid == {k \in 1..Len(s) : s[k] \notin Whitespace}
    IN  IF solid = {} THEN << >> ELSE SubSeq(s, SetMin(solid), SetMax(solid))

BeginsWith(s, p) == Len(p) <= Len(s) /\ \A k \in 1..Len(p) : s[k] = p[k]

Recognized(k) == k # << >> /\ \E p \in {ssh_rsa, ssh_ed25519, ecdsa_sha2_nistp} : BeginsWith(k, p)

Called == call # NoCall
Has(f) == f \in DOMAIN call.args
Supplied(f) == Has(f) /\ call.args[f] # None

NameFields == {"name", "environment_name", "image_name", "flavor_name", "key_name",
               "new_name"}
IdFields == {"environment_id", "vm_id"}
SizeFields == {"page_size", "per_page"}
ListOps == {"list_environments", "list_virtual_machines", "get_images"}

BlankArg(c) == \E f \in (NameFields \cup IdFields) \cap DOMAIN c.args :
                   AllWhitespace(c.args[f])

Violates(c) ==
    \/ BlankArg(c)
    \/ c.op = "create_virtual_machine" /\ Len(Core(c.args.name)) > MaxNameLen
    \/ c.op = "create_virtual_machine" /\ "count" \in DOMAIN c.args
           /\ c.args.count < 1
    \/ c.op = "create_keypair" /\ ~Recognized(c.args.public_key)
    \/ c.op = "create_environment" /\ c.args.region \notin {"CANADA-1", "NORWAY-1"}
    \/ "page" \in DOMAIN c.args /\ c.args.page # None /\ c.args.page[1] < 0
    \/ \E f \in SizeFields \cap DOMAIN c.args :
           c.args[f] # None /\ c.args[f][1] < 1

\* a step in which a client operation is invoked and ends
Invocation == calls' = calls + 1 /\ call' # NoCall

\* C1: an invocation whose arguments violate a validation rule ends with
\* ValueError and has handed no request to the transport.
C1_InvalidArgumentBeforeNetwork ==
    [][(Invocation /\ Violates(call'))
          => (call'.outcome = "ValueError" /\ call'.requests = << >>
                 /\ sent' = sent)]_vars

C1_Witness ==
    /\ Called
    /\ call.op = "create_environment"
    /\ ~AllWhitespace(call.args.name)
    /\ call.args.region = "MARS-1"
    /\ call.outcome = "ValueError"
    /\ sent = 0

\* C2: an invocation that gets past validation hands exactly one request
\* to the transport, none hands over more than one, and a transport error
\* ends the invocation with that error and without a result.
C2_ExactlyOneRequest ==
    [][Invocation
          => /\ Len(call'.requests) <= 1
             /\ sent' = sent + Len(call'.requests)
             /\ (call'.outcome # "ValueError"
                    => Len(call'.requests) = 1 /\ sent' = sent + 1)
             /\ (call'.outcome = "TransportError"
                    => call'.result = NoResult /\ sent' = sent + 1)
             /\ (call'.outcome = "ok" => call'.result # NoResult)]_vars

C2_Witness ==
    /\ Called
    /\ calls = 2
    /\ sent = 2
    /\ call.outcome = "TransportError"
    /\ Len(call.requests) = 1

(***************************************************************************)
(* Credentials, read line by line: the value of the first line of the form *)
(* `key = <value>` that carries a value.                                   *)
(***************************************************************************)
HasKey(o) == o # None /\ o[1] # << >>

LineStarts(s) == {b \in 1..Len(s) : b = 1 \/ s[b - 1] = "\n"}

LineFrom(s, b) ==
    LET ends == {e \in b..Len(s) : s[e] = "\n"}
    IN  SubSeq(s, b, IF ends = {} THEN Len(s) ELSE SetMin(ends) - 1)

\* the value of a `key = <value>` line, None for any other line
KeyLineValue(line) ==
    IF ~BeginsWith(line, <<"k", "e", "y">>) THEN None
    ELSE LET rest == Core(SubSeq(line, 4, Len(line)))
         IN  IF rest = << >> \/ rest[1] # "=" THEN None
             ELSE Some(Core(SubSeq(rest, 2, Len(rest))))

FileKey(file) ==
    IF ~file.exists \/ ~file.readable THEN None
    ELSE LET keyed == {b \in LineStarts(file.text) :
                          HasKey(KeyLineValue(LineFrom(file.text, b)))}
         IN  IF keyed = {} THEN None
             ELSE KeyLineValue(LineFrom(file.text, SetMin(keyed)))

FirstOf(a, b, c) == IF HasKey(a) THEN a ELSE IF HasKey(b) THEN b ELSE c

CarriesKey(k) ==
    /\ client # NoClient
    /\ client.api_key = k
    /\ client.default_headers = [api_key |-> k]
    /\ (Called => \A i \in 1..Len(call.requests) :
                      call.requests[i].headers = [api_key |-> k])

\* C3: with no API key available, constructing the client raises ValueError
\* (the command-line program ends with a usage error instead), no client
\* exists and nothing has been handed to the transport.
C3_NoKeyNoClient ==
    /\ (proc.mode = "lib" /\ ~HasKey(proc.api_key) /\ ~HasKey(world.environ_key))
          => (pc = "failed" /\ proc.error = "ValueError" /\ client = NoClient
                 /\ sent = 0 /\ calls = 0)
    /\ (proc.mode = "cli" /\ ~HasKey(proc.api_key) /\ ~HasKey(world.environ_key)
            /\ ~HasKey(FileKey(world.credentials)))
          => (client = NoClient /\ call = NoCall /\ sent = 0
                 /\ proc.exit_code \notin {None, Some(0)}
                 /\ proc.stdout = << >> /\ proc.stderr # << >>)

C3_Witness ==
    /\ pc = "failed"
    /\ proc.api_key = Some(<< >>)
    /\ world.environ_key = None
    /\ ~HasKey(FileKey(world.credentials))
    /\ proc.error = "ValueError"
    /\ sent = 0

\* the checks main makes on the command line before it runs the command
ArgsAccepted(argv) ==
    /\ argv.command = "create-environment"
          => argv.options.region \in {"CANADA-1", "NORWAY-1"}
    /\ argv.command = "create-vm"
          => (argv.options.user_data_file = None
                 \/ argv.options.user_data_file[1].readable)
    /\ argv.command = "create-keypair"
          => (HasKey(argv.options.public_key)
                 \/ argv.options.public_key_file # None)

Request == call.requests[1]

OtherVmFieldsValid ==
    /\ \A f \in {"environment_name", "image_name", "flavor_name", "key_name"} :
           ~AllWhitespace(call.args[f])
    /\ "count" \in DOMAIN call.args => call.args.count >= 1

\* C5: create_virtual_machine rejects a non-blank machine name exactly when
\* its length after trimming exceeds 50.
C5_TrimmedLengthRule ==
    (Called /\ call.op = "create_virtual_machine"
        /\ ~AllWhitespace(call.args.name) /\ OtherVmFieldsValid)
      => (call.outcome = "ValueError" <=> Len(Core(call.args.name)) > MaxNameLen)

CreateOps == {"create_environment", "create_keypair", "create_virtual_machine"}

\* C6: in the three create operations a blank name-class field raises
\* ValueError, and every accepted name-class field is in the JSON body
\* without its surrounding whitespace.
C6_NamesTrimmed ==
    (Called /\ call.op \in CreateOps)
      => /\ (\E f \in NameFields \cap DOMAIN call.args : AllWhitespace(call.args[f]))
               => (call.outcome = "ValueError" /\ call.requests = << >>)
         /\ call.outcome # "ValueError"
               => \A f \in NameFields \cap DOMAIN call.args :
                      Request.json[f] = Core(call.args[f])

C6_Witness ==
    /\ Called
    /\ call.op = "create_virtual_machine"
    /\ call.outcome = "ok"
    /\ call.args.image_name = <<" ", "r", "\n">>
    /\ Request.json.image_name = <<"r">>

\* C7: create_keypair (its names being acceptable) raises ValueError exactly
\* when the public key is empty or does not begin with ssh-rsa, ssh-ed25519
\* or ecdsa-sha2-nistp.
C7_PublicKeyPrefix ==
    (Called /\ call.op = "create_keypair"
        /\ ~AllWhitespace(call.args.name)
        /\ ~AllWhitespace(call.args.environment_name))
      => (call.outcome = "ValueError" <=> ~Recognized(call.args.public_key))

C7_Witness ==
    /\ Called
    /\ call.op = "create_keypair"
    /\ BeginsWith(call.args.public_key, ecdsa_sha2_nistp)
    /\ call.outcome = "ok"
    /\ Len(call.requests) = 1

(***************************************************************************)
(* List operations                                                         *)
(***************************************************************************)
BadPage == Supplied("page") /\ call.args.page[1] < 0
BadSize == \E f \in SizeFields : Supplied(f) /\ call.args[f][1] < 1

QueryKey(f) == IF f = "page_size" THEN "pageSize" ELSE f

\* C8: a list operation raises ValueError exactly when a supplied page is
\* negative or a supplied page size is below 1; otherwise a supplied page
\* or page size is sent with the value given.
C8_Pagination ==
    (Called /\ call.op \in ListOps)
      => /\ call.outcome = "ValueError" <=> (BadPage \/ BadSize)
         /\ call.outcome # "ValueError"
               => \A f \in {"page"} \cup SizeFields :
                      Supplied(f) => /\ QueryKey(f) \in DOMAIN Request.params
                                     /\ Request.params[QueryKey(f)] = call.args[f][1]

C8_Witness ==
    /\ Called
    /\ call.op = "get_images"
    /\ Has("page")
    /\ call.args.page = Some(0)
    /\ call.args.per_page = Some(1)
    /\ call.outcome = "ok"
    /\ Request.params.page = 0
    /\ Request.params.per_page = 1

StringArgs == {"search", "environment", "region"}
ListArgs == StringArgs \cup {"include_public", "page"} \cup SizeFields

\* the optional arguments that are to show up in the query
Effective == {f \in ListArgs : Supplied(f) /\ (f \in StringArgs => ~AllWhitespace(call.args[f][1]))}

\* C9: the query of a list request holds exactly the optional arguments that
\* were supplied (for strings: supplied and not blank), strings trimmed, and
\* is empty when every optional argument was left out.
C9_QueryParams ==
    (Called /\ call.op \in ListOps /\ call.outcome # "ValueError")
      => /\ DOMAIN Request.params = {QueryKey(f) : f \in Effective}
         /\ \A f \in Effective :
                Request.params[QueryKey(f)] =
                    IF f \in StringArgs THEN Core(call.args[f][1])
                                        ELSE call.args[f][1]
         /\ (\A f \in ListArgs : ~Supplied(f)) => Request.params = NoParams

C9_Witness ==
    /\ Called
    /\ call.op = "list_virtual_machines"
    /\ call.outcome = "ok"
    /\ call.args.search = Some(<<" ">>)
    /\ call.args.environment = Some(<<"e", " ">>)
    /\ DOMAIN Request.params = {"environment"}
    /\ Request.params.environment = <<"e">>

(***************************************************************************)
(* Action-style operations on a virtual machine                            *)
(***************************************************************************)
ActionName(op) ==
    CASE op = "start_virtual_machine" -> "start"
      [] op = "stop_virtual_machine" -> "stop"
      [] op = "hard_reboot_virtual_machine" -> "hard-reboot"
      [] op = "hibernate_virtual_machine" -> "hibernate"
      [] op = "restore_hibernated_virtual_machine" -> "hibernate-restore"
      [] OTHER -> ""

ViaHelper == call.helper = <<"_execute_vm_action">>

ValidatesVmId ==
    AllWhitespace(call.args.vm_id) <=> (call.outcome = "ValueError")

\* C10 as claimed: start, stop, hard-reboot, hibernate, restore and delete
\* all go through the shared helper, which validates the identifier and
\* issues a GET to the path suffixed with the action name, a DELETE for
\* delete.
C10_AllThroughHelper ==
    (Called /\ call.op \in VmActionOps \cup {"delete_virtual_machine"})
      => /\ ViaHelper
         /\ ValidatesVmId
         /\ call.outcome # "ValueError"
               => /\ Request.path.prefix = "/core/virtual-machines"
                  /\ Request.path.id = Core(call.args.vm_id)
                  /\ IF call.op = "delete_virtual_machine"
                     THEN Request.method = "DELETE"
                     ELSE /\ Request.method = "GET"
                          /\ Request.path.action = ActionName(call.op)

\* C10 (amended): start, stop, hard-reboot, hibernate and restore go through
\* the shared helper, which validates the identifier and issues a GET to
\* /core/virtual-machines/{id}/{action}; delete does not use the helper: it
\* validates the identifier itself and issues a DELETE to
\* /core/virtual-machines/{id}, without a suffix.
C10_ActionOps ==
    (Called /\ call.op \in VmActionOps \cup {"delete_virtual_machine"})
      => /\ ViaHelper <=> call.op \in VmActionOps
         /\ ValidatesVmId
         /\ call.outcome # "ValueError"
               => /\ Request.path.prefix = "/core/virtual-machines"
                  /\ Request.path.id = Core(call.args.vm_id)
                  /\ Request.path.action = ActionName(call.op)
                  /\ Request.method = IF call.op = "delete_virtual_machine"
                                      THEN "DELETE" ELSE "GET"

C10_Witness ==
    /\ Called
    /\ call.op = "restore_hibernated_virtual_machine"
    /\ ViaHelper
    /\ call.outcome = "ok"
    /\ Request.method = "GET"
    /\ Request.path = Path("/core/virtual-machines", <<"7">>, "hibernate-restore")
    /\ call.args.vm_id # <<"7">>

\* operations whose request path embeds an identifier
IdOps == {"get_environment", "update_environment", "delete_environment",
          "get_virtual_machine", "delete_virtual_machine"} \cup VmActionOps

Identifier == IF Has("environment_id") THEN call.args.environment_id
              ELSE call.args.vm_id

PathPrefix == IF Has("environment_id") THEN "/core/environments"
              ELSE "/core/virtual-machines"

\* the remaining arguments of the call are acceptable
OtherIdArgsValid ==
    Has("new_name") => /\ ~AllWhitespace(call.args.new_name)
                       /\ Len(Core(call.args.new_name)) <= MaxNameLen

\* C11: every operation that embeds an identifier in the path fails
\* validation, sending nothing, when the identifier is empty or all
\* whitespace; otherwise its single request goes to the path built from the
\* identifier without its surrounding whitespace.
C11_IdentifierInPath ==
    (Called /\ call.op \in IdOps) =>
        /\ AllWhitespace(Identifier) =>
               call.outcome = "ValueError" /\ call.requests = << >>
        /\ (~AllWhitespace(Identifier) /\ OtherIdArgsValid) =>
               /\ call.outcome # "ValueError"
               /\ Len(call.requests) = 1
               /\ Request.path.prefix = PathPrefix
               /\ Request.path.id = Core(Identifier)
        /\ call.requests # << >> => Request.path.id = Core(Identifier)

C11_Witness ==
    /\ Called /\ call.op = "update_environment" /\ call.outcome = "ok"
    /\ call.args.environment_id = <<" ", "7", " ">>
    /\ Request.path = Path("/core/environments", <<"7">>, "")

Cli == proc.mode = "cli"

\* the run was stopped by a rejected argument or by a failed request
RunFailed == \/ proc.error \in {"ValueError", "TransportError"}
             \/ Called /\ call.outcome # "ok"

\* C12: a command-line run stopped by a validation error or by a transport
\* error ends with a non-zero status, with the error's message on the error
\* stream and nothing on standard output; a run ending with status 0 has
\* printed the result of its operation.
C12_CliErrors ==
    Cli =>
        /\ RunFailed =>
               /\ proc.exit_code \notin {None, Some(0)}
               /\ Called => proc.error = call.outcome
               /\ proc.stderr = <<[kind |-> "Error", error |-> proc.error]>>
               /\ proc.stdout = << >>
        /\ proc.exit_code = Some(0) =>
               /\ Called /\ call.outcome = "ok"
               /\ proc.stdout = <<[format |-> Default(proc.argv.format, "pretty"),
                                   dumps |-> call.result]>>
               /\ proc.stderr = << >>

C12_Witness ==
    /\ Cli /\ Called /\ call.outcome = "TransportError"
    /\ proc.exit_code = Some(1)
    /\ proc.stderr = <<[kind |-> "Error", error |-> "TransportError"]>>
    /\ proc.stdout = << >>

\* the parameters each client operation accepts
Parameters(op) ==
    CASE op = "create_environment" -> {"name", "region"}
      [] op = "list_environments" -> {"search", "page", "page_size"}
      [] op = "update_environment" -> {"environment_id", "new_name"}
      [] op \in {"get_environment", "delete_environment"} -> {"environment_id"}
      [] op = "create_keypair" -> {"name", "environment_name", "public_key"}
      [] op \in {"get_flavors", "get_gpu_stocks"} -> {}
      [] op = "get_images" ->
            {"region", "include_public", "search", "page", "per_page"}
      [] op = "list_virtual_machines" ->
            {"search", "environment", "page", "page_size"}
      [] op = "create_virtual_machine" ->
            {"name", "environment_name", "image_name", "flavor_name", "key_name",
             "count", "assign_floating_ip", "create_bootable_volume", "user_data"}
      [] OTHER -> {"vm_id"}

\* options that are switches, and options that may be left out although the
\* client takes a plain value
Switches == {"assign_floating_ip", "create_bootable_volume"}
Omissible == {"count", "user_data", "public_key"}

FromFile(f) ==
    \/ f = "user_data" /\ proc.argv.options.user_data_file # None
    \/ f = "public_key" /\ proc.argv.options.public_key_file # None

\* the value given for option f on the command line reaches the client as is
PassedUnchanged(f) ==
    LET given == proc.argv.options[f]
        passed == call.args[f]
    IN  IF f \in Switches THEN given => passed
        ELSE IF f \in Omissible
        THEN (given # None /\ ~FromFile(f)) => passed = given[1]
        ELSE passed = given

\* C13 as claimed: a subcommand takes every parameter of its client
\* operation and hands each one to the client call unchanged.
C13_CliMirrorsClient ==
    (Cli /\ Called) =>
        /\ Parameters(call.op) \subseteq DOMAIN proc.argv.options
        /\ Parameters(call.op) \subseteq DOMAIN call.args
        /\ \A f \in Parameters(call.op) \cap DOMAIN proc.argv.options
                       \cap DOMAIN call.args : PassedUnchanged(f)

\* every request of the call carries the client's key and base URL
CarriesConfiguration(c, self) ==
    \A i \in 1..Len(c.requests) :
        /\ c.requests[i].headers = [api_key |-> self.api_key]
        /\ c.requests[i].headers = self.default_headers
        /\ c.requests[i].base_url = self.base_url

\* C14: once the client is constructed no step changes its base URL, API
\* key or default headers, however the operation called ends, and every
\* request carries that API key in its api_key header and that base URL.
C14_ConfigurationFixed ==
    [][/\ client # NoClient => client' = client
       /\ call' # NoCall => CarriesConfiguration(call', client')]_vars

C14_Witness ==
    /\ proc.mode = "lib" /\ calls = 2 /\ sent = 1
    /\ Called /\ call.outcome = "TransportError"
    /\ Request.headers.api_key = <<"E", "2">>
    /\ client.api_key = <<"E", "2">>

CountGiven == Has("count")

\* the arguments other than count are accepted as they are written
OtherVmArgsValid ==
    /\ \A f \in {"name", "environment_name", "image_name", "flavor_name",
                 "key_name"} : ~AllWhitespace(call.args[f])
    /\ Len(call.args.name) <= MaxNameLen

\* C15: create_virtual_machine raises the invalid-argument error, sending
\* nothing, for every count below 1; with a count of 1 or more and the other
\* arguments acceptable it sends one request whose body holds that count,
\* and holds 1 when the caller gave no count.
C15_CountRule ==
    (Called /\ call.op = "create_virtual_machine") =>
        /\ (CountGiven /\ call.args.count < 1) =>
               call.outcome = "ValueError" /\ call.requests = << >>
        /\ (OtherVmArgsValid /\ (CountGiven => call.args.count >= 1)) =>
               /\ call.outcome # "ValueError"
               /\ Len(call.requests) = 1
        /\ call.requests # << >> =>
               Request.json.count = IF CountGiven THEN call.args.count ELSE 1

C15_Witness ==
    /\ Called /\ call.op = "create_virtual_machine" /\ call.outcome = "ok"
    /\ ~CountGiven
    /\ Request.json.count = 1

CliCreateVm == Cli /\ Called /\ call.op = "create_virtual_machine"

\* C16: the create-vm subcommand always asks for a floating IP: with or
\* without --assign-floating-ip the client is called with
\* assign_floating_ip true, and every request it sends says so.
C16_FloatingIpAlwaysTrue ==
    CliCreateVm =>
        /\ proc.argv.command = "create-vm"
        /\ call.args.assign_floating_ip = TRUE
        /\ \A i \in 1..Len(call.requests) :
               call.requests[i].json.assign_floating_ip = TRUE

C16_Witness ==
    /\ CliCreateVm /\ call.outcome = "ok"
    /\ proc.argv.options.assign_floating_ip = FALSE
    /\ Request.json.assign_floating_ip = TRUE

====
